---- MODULE Spec2Model ----
(***************************************************************************)
(* A model of the movie-discovery application's client layer:              *)
(*   - the on-disk TTL cache of tmdb_client.py (_load_cache, _save_cache,   *)
(*     _cache_get, _cache_set), step by step at its file accesses;          *)
(*   - the metadata client calls that use it (search_multi, get_trending);  *)
(*   - the auth / watchlist client of firebase_auth.py and the watchlist    *)
(*     helpers of ui.py.                                                    *)
(* Python values are records [tag, items]; a dict of the cache is a         *)
(* function whose DOMAIN is the set of its keys.                            *)
(***************************************************************************)
EXTENDS Integers, Sequences, FiniteSets, TLC

VARIABLES
    now,      \* time.time(), in seconds
    ticks,    \* how often the clock has advanced (bounds the model)
    faults,   \* whether file operations may fail (environment, fixed by Init)
    procs,    \* the processes that share the cache file (fixed by Init)
    file,     \* CACHE_FILE: [state: missing | torn | ok, data: the JSON document]
    pc,       \* per process: the position in the running call
    top,      \* per process: the call made by the application
    sub,      \* per process: the cache function running (get | set)
    key,      \* per process: key of _cache_get / _cache_set
    val,      \* per process: value of _cache_set (results of search_multi)
    ttl,      \* per process: ttl of _cache_set
    ts,       \* per process: the time.time() _cache_set stored in the entry
    data,     \* per process: data of _load_cache
    raw,      \* per process: what json.load returned to _load_cache
    lnow,     \* per process: now of _load_cache
    c,        \* per process: c of _cache_get / _cache_set
    found,    \* per process: what the load of the call's _cache_get read for its key
    resp,     \* per process: results of the data _req returned to the call
    path,     \* per process: path of the last _req
    calls,    \* per process: provider requests sent during the running call
    ioerr,    \* per process: last exception raised inside the running cache function
    result,   \* per process: outcome of the last call
    prev,     \* per process: the _cache_set call that ended right before the running call
    stored,   \* per process: the cache file as the _cache_set of a lone process found it
    TMDB_API_KEY, \* whether the metadata key is configured (fixed by Init)
    kinds,    \* the kinds the application searches with (fixed by Init)
    tickSteps, \* by how many seconds the clock may advance at once (fixed by Init)
    args,     \* the <<key, value, ttl>> the application stores directly (fixed by Init)
    OMDB_API_KEY, \* whether the awards provider's key is configured (fixed by Init)
    PERPLEXITY_API_KEY, \* the AI provider's key as config.py read it (fixed by Init)
    omdb,     \* per process: what the awards request of the running call came to
    attempts, \* per process: requests the transport has sent for the running _req
    upstream, \* per process: how the provider request of the running call ended
    error,    \* per process: the message of the TMDbError the running call raised
    user,     \* FirebaseAuthClient.user of the AppUI in use
    ssUser,   \* st.session_state.user
    http,     \* HTTP requests issued by the last auth / watchlist operation
    out       \* outcome of the last auth / watchlist operation

clock == <<now, ticks>>
env == <<faults, procs, TMDB_API_KEY, kinds, tickSteps, args, OMDB_API_KEY,
        PERPLEXITY_API_KEY>>
\* what only the start of a call sets
frame == <<top, key, prev, stored>>
\* the locals of the cache functions
cacheLocals == <<sub, val, ttl, ts, data, raw, lnow, c, ioerr>>
\* the locals of the metadata client functions
clientLocals == <<found, resp, path, calls>>
\* the locals of _req and of the awards enrichment
reqLocals == <<omdb, attempts, error, upstream>>
\* the state of the auth client and of the UI session
authVars == <<user, ssUser, http, out>>
vars == <<clock, env, file, pc, frame, cacheLocals, clientLocals, reqLocals, result, authVars>>

(* ------------------------------- bounds -------------------------------- *)

MaxTicks == 2

(* ----------------------------- constants ------------------------------- *)

CACHE_TTL == 3600

Procs == {1, 2}

(* ---------------------------- Python values ---------------------------- *)

None == [tag |-> "None", items |-> <<>>]

PyList(s) == [tag |-> "list", items |-> s]

EmptyDict == <<>>

\* An item of a provider result page. Only the fields the claims read are kept:
\* media_type and id (title, overview, poster_path, popularity are copied through
\* by the code in the same way as id).
Item(typ, id) == [media_type |-> typ, id |-> id]

\* data.get('results', []) of a 200 response: an empty page, a page with no movie
\* or tv item, and pages that mix the types in different orders
ProviderResults ==
    { <<>>,
      <<Item("person", 1)>>,
      <<Item("tv", 1), Item("movie", 2)>>,
      <<Item("movie", 2), Item("person", 1), Item("tv", 1)>> }

(* ------------------------------ the cache ------------------------------ *)

\* f"search:{kind}:{query}:{page}"; the parts hold no ':' here, so the string is
\* determined by, and determines, the tuple of its parts.
SearchKey(kind, query, page) == <<"search", kind, query, page>>

Queries == {"dune"}
Pages == {1}

\* keys and arguments of the direct _cache_get / _cache_set calls
CacheKeys == {SearchKey("multi", "dune", 1), SearchKey("movie", "dune", 1)}
OneResult == [type |-> "movie", id |-> 2, tmdb_raw |-> Item("movie", 2)]
\* (JSON values: the results the client functions store are JSON throughout)
CacheValues == {PyList(<<>>), PyList(<<OneResult>>)}
CacheTtls == {-1, 1, CACHE_TTL}
CacheArgs == CacheKeys \X CacheValues \X CacheTtls
\* writers of two keys, with a long-lived entry or one that is expired at once
RaceArgs == CacheKeys \X {PyList(<<OneResult>>)} \X {-1, CACHE_TTL}

\* {'ts': ..., 'ttl': ..., 'value': ...}
Entry(stamp, t, v) == [shape |-> "dict", ts |-> stamp, ttl |-> t, value |-> v]

\* json.dump followed by json.load: a tuple is written as an array and read back
\* as a list; lists, dicts, strings, numbers and null come back unchanged.
JsonValue(v) == IF v.tag = "tuple" THEN [v EXCEPT !.tag = "list"] ELSE v

JsonDump(d) == [k \in DOMAIN d |-> [d[k] EXCEPT !.value = JsonValue(@)]]

JsonLoad(doc) == doc

\* `not e`: an entry that is null, 0, "", [] or {} in the file
Falsy(e) == e.shape = "falsy"

\* an entry on which e.get(...) or the addition raises (a non-dict, a non-number ts)
BadShape(e) == e.shape = "bad"

\* (mutant of Expired: the ttl is ignored, nothing ever expires)
ExpiredNever(e, t) == FALSE

\* (mutant of Expired: the entry is dropped already at now = ts + ttl)
ExpiredAtTtl(e, t) == e.ts + e.ttl <= t

\* e.get('ts', 0) + e.get('ttl', CACHE_TTL) < now
Expired(e, t) == e.ts + e.ttl < t

\* (mutant of Prune: the loop drops nothing)
PruneNothing(d, t) == d

\* (mutant of Prune: once an entry is expired the loop drops every entry)
PruneAll(d, t) == IF \E j \in DOMAIN d : ~Falsy(d[j]) /\ Expired(d[j], t) THEN EmptyDict ELSE d

\* the loop of _load_cache over list(data.keys())
Prune(d, t) == [k \in {j \in DOMAIN d : Falsy(d[j]) \/ ~Expired(d[j], t)} |-> d[k]]

\* the exceptions a file operation, json or the loop can raise: all are Exceptions
Exceptions == {"OSError", "JSONDecodeError", "AttributeError", "TypeError"}

\* (mutant of LoadCatches: only the errors of the file system are caught)
LoadCatchesOnlyOSError(err) == err = "OSError"

\* `except Exception` of _load_cache
LoadCatches(err) == err \in Exceptions

\* (mutant of SaveCatches: _save_cache without its try block)
SaveCatchesNothing(err) == FALSE

\* `except Exception` of _save_cache
SaveCatches(err) == err \in Exceptions

IOOutcomes == IF faults THEN {"ok", "OSError"} ELSE {"ok"}

Torn == [state |-> "torn", data |-> EmptyDict]

Written(d) == [state |-> "ok", data |-> JsonDump(d)]

Ret(v) == [kind |-> "return", val |-> v, err |-> "none"]

Raise(e) == [kind |-> "raise", val |-> None, err |-> e]


(* ------------------------------- Init ---------------------------------- *)

Pending == [kind |-> "pending", val |-> None, err |-> "none"]

NoCall == [name |-> "none", kind |-> "none", query |-> "none", page |-> 0,
           media_type |-> "none", time_window |-> "none", tmdb_id |-> 0]

NoPrev == [set |-> FALSE, key |-> <<>>, val |-> None, ttl |-> 0, ts |-> 0]

NoPath == <<>>

NoStore == [state |-> "none", data |-> EmptyDict]

NotFound == [present |-> FALSE, entry |-> [shape |-> "dict", ts |-> 0, ttl |-> 0, value |-> None],
             at |-> 0]

\* what can come back for an HTTP request: no response at all (requests raises),
\* or a status with a body that is JSON or not, and an error.message or none
Answer(arrived, status, json, message) ==
    [arrived |-> arrived, status |-> status, json |-> json, message |-> message]

NoAnswer == Answer(FALSE, 0, FALSE, "absent")

\* the outcome of a call of the auth client or of a UI helper; seen is the
\* identity provider's answer the call got, if it got one
AuthRet(v) == [kind |-> "return", val |-> v, err |-> "none", msg |-> "none", seen |-> NoAnswer]

AuthRaise(e, m) == [kind |-> "raise", val |-> None, err |-> e, msg |-> m, seen |-> NoAnswer]

NotCalled == [kind |-> "none", val |-> None, err |-> "none", msg |-> "none", seen |-> NoAnswer]

Seen(r, ans) == [r EXCEPT !.seen = ans]

\* st.success / st.error / st.warning
Shown(level, text) == [level |-> level, text |-> text]

NoMessage == Shown("none", "none")

\* the message of a TMDbError: its text, and the upstream status and message if
\* a response came
ErrorMessage(text, status, message) == [text |-> text, status |-> status, message |-> message]

NoError == ErrorMessage("none", 0, "none")

NoOutcome == [op |-> "none", prevOp |-> "none", before |-> None, res |-> NotCalled,
              inner |-> NotCalled, shown |-> NoMessage]

InitState ==
    /\ now = 0
    /\ ticks = 0
    /\ file = [state |-> "missing", data |-> EmptyDict]
    /\ pc = [p \in Procs |-> "idle"]
    /\ top = [p \in Procs |-> NoCall]
    /\ key = [p \in Procs |-> <<>>]
    /\ prev = [p \in Procs |-> NoPrev]
    /\ stored = [p \in Procs |-> NoStore]
    /\ sub = [p \in Procs |-> "none"]
    /\ val = [p \in Procs |-> None]
    /\ ttl = [p \in Procs |-> CACHE_TTL]
    /\ ts = [p \in Procs |-> 0]
    /\ data = [p \in Procs |-> EmptyDict]
    /\ raw = [p \in Procs |-> EmptyDict]
    /\ lnow = [p \in Procs |-> 0]
    /\ c = [p \in Procs |-> EmptyDict]
    /\ ioerr = [p \in Procs |-> "none"]
    /\ found = [p \in Procs |-> NotFound]
    /\ resp = [p \in Procs |-> <<>>]
    /\ path = [p \in Procs |-> NoPath]
    /\ calls = [p \in Procs |-> 0]
    /\ omdb = [p \in Procs |-> "none"]
    /\ attempts = [p \in Procs |-> 0]
    /\ upstream = [p \in Procs |-> "none"]
    /\ error = [p \in Procs |-> NoError]
    /\ result = [p \in Procs |-> Pending]
    /\ user = None
    /\ ssUser = None
    /\ http = 0
    /\ out = NoOutcome

(* --------------------------- the clock --------------------------------- *)

Tick ==
    /\ ticks < MaxTicks
    /\ \E d \in tickSteps : now' = now + d
    /\ ticks' = ticks + 1
    /\ UNCHANGED <<env, file, pc, frame, cacheLocals, clientLocals, result, authVars, reqLocals>>

(* ------------------------ calls of the cache --------------------------- *)

Ready(p) == p \in procs /\ pc[p] \in {"idle", "done"}

\* the _cache_set call of process p that has just returned, if there is one
EndedSet(p) ==
    IF pc[p] = "done" /\ top[p].name = "_cache_set" /\ result[p].kind = "return"
    THEN [set |-> TRUE, key |-> key[p], val |-> val[p], ttl |-> ttl[p], ts |-> ts[p]]
    ELSE NoPrev

\* a call starts: nothing loaded, nothing sent; it goes on at `at`
Enter(p, call, fn, k, v, t, pv, at, res) ==
    /\ top' = [top EXCEPT ![p] = call]
    /\ key' = [key EXCEPT ![p] = k]
    /\ prev' = [prev EXCEPT ![p] = pv]
    /\ stored' = [stored EXCEPT ![p] =
                     IF call.name = "_cache_set" /\ procs = {p} THEN file ELSE NoStore]
    /\ sub' = [sub EXCEPT ![p] = fn]
    /\ val' = [val EXCEPT ![p] = v]
    /\ ttl' = [ttl EXCEPT ![p] = t]
    /\ ts' = [ts EXCEPT ![p] = 0]
    /\ data' = [data EXCEPT ![p] = EmptyDict]
    /\ raw' = [raw EXCEPT ![p] = EmptyDict]
    /\ lnow' = [lnow EXCEPT ![p] = 0]
    /\ c' = [c EXCEPT ![p] = EmptyDict]
    /\ ioerr' = [ioerr EXCEPT ![p] = "none"]
    /\ found' = [found EXCEPT ![p] = NotFound]
    /\ resp' = [resp EXCEPT ![p] = <<>>]
    /\ path' = [path EXCEPT ![p] = NoPath]
    /\ calls' = [calls EXCEPT ![p] = 0]
    /\ omdb' = [omdb EXCEPT ![p] = "none"]
    /\ attempts' = [attempts EXCEPT ![p] = 0]
    /\ upstream' = [upstream EXCEPT ![p] = "none"]
    /\ error' = [error EXCEPT ![p] = NoError]
    /\ result' = [result EXCEPT ![p] = res]
    /\ pc' = [pc EXCEPT ![p] = at]

\* _cache_get(key) called directly
CallCacheGet(p) ==
    /\ Ready(p)
    /\ \E k \in {a[1] : a \in args} :
         Enter(p, [NoCall EXCEPT !.name = "_cache_get"], "get", k, None, CACHE_TTL,
               EndedSet(p), "load_read", Pending)
    /\ UNCHANGED <<clock, env, file, authVars>>

\* _cache_set(key, value, ttl) called directly
CallCacheSet(p) ==
    /\ Ready(p)
    /\ \E a \in args :
         Enter(p, [NoCall EXCEPT !.name = "_cache_set"], "set", a[1], a[2], a[3],
               NoPrev, "load_read", Pending)
    /\ UNCHANGED <<clock, env, file, authVars>>

(* ----------------------------- _load_cache ----------------------------- *)

\* _load_cache ends: it returns d, or err was raised inside its try block
LoadEnds(p, err, d) ==
    /\ ioerr' = [ioerr EXCEPT ![p] = IF err = "none" THEN @ ELSE err]
    /\ IF err = "none" \/ LoadCatches(err)
       THEN /\ c' = [c EXCEPT ![p] = IF err = "none" THEN d ELSE EmptyDict]
            /\ pc' = [pc EXCEPT ![p] = "loaded"]
            /\ result' = result
       ELSE /\ c' = c
            /\ pc' = [pc EXCEPT ![p] = "done"]
            /\ result' = [result EXCEPT ![p] = Raise(err)]

\* CACHE_FILE.exists(), open(CACHE_FILE, 'r'), json.load(f)
LoadRead(p) ==
    /\ p \in procs
    /\ pc[p] = "load_read"
    /\ \E o \in IOOutcomes :
         LET err == IF file.state = "missing" THEN "none"
                    ELSE IF o # "ok" THEN o
                    ELSE IF file.state = "torn" THEN "JSONDecodeError"
                    ELSE "none"
             read == file.state = "ok" /\ err = "none"
             got == IF read THEN JsonLoad(file.data) ELSE EmptyDict
         IN  /\ data' = [data EXCEPT ![p] = got]
             /\ raw' = [raw EXCEPT ![p] = got]
             /\ IF read
                THEN /\ pc' = [pc EXCEPT ![p] = "load_prune"]
                     /\ UNCHANGED <<c, result, ioerr>>
                ELSE LoadEnds(p, err, EmptyDict)
    /\ UNCHANGED <<clock, env, file, frame, sub, val, ttl, ts, lnow, clientLocals, authVars, reqLocals>>

\* now = time.time(), the loop that drops the expired entries, and, if any was
\* dropped, open(CACHE_FILE, 'w'), which truncates the file
LoadPrune(p) ==
    /\ p \in procs
    /\ pc[p] = "load_prune"
    /\ lnow' = [lnow EXCEPT ![p] = now]
    /\ \E o \in IOOutcomes :
         LET bad == \E k \in DOMAIN data[p] : BadShape(data[p][k])
             kept == Prune(data[p], now)
             changed == DOMAIN kept # DOMAIN data[p]
         IN  IF bad
             THEN /\ LoadEnds(p, "AttributeError", EmptyDict)
                  /\ UNCHANGED <<file, data>>
             ELSE IF ~changed
             THEN /\ LoadEnds(p, "none", data[p])
                  /\ UNCHANGED <<file, data>>
             ELSE IF o = "ok"
             THEN /\ file' = Torn
                  /\ data' = [data EXCEPT ![p] = kept]
                  /\ pc' = [pc EXCEPT ![p] = "load_dump"]
                  /\ UNCHANGED <<c, result, ioerr>>
             ELSE /\ LoadEnds(p, o, EmptyDict)
                  /\ UNCHANGED <<file, data>>
    /\ UNCHANGED <<clock, env, frame, sub, val, ttl, ts, raw, clientLocals, authVars, reqLocals>>

\* json.dump(data, fw) of the pruned store, and return data
LoadDump(p) ==
    /\ p \in procs
    /\ pc[p] = "load_dump"
    /\ \E o \in IOOutcomes :
         IF o = "ok"
         THEN /\ file' = Written(data[p])
              /\ LoadEnds(p, "none", data[p])
         ELSE /\ file' = Torn
              /\ LoadEnds(p, o, EmptyDict)
    /\ UNCHANGED <<clock, env, frame, sub, val, ttl, ts, data, raw, lnow, clientLocals,
                   authVars, reqLocals>>

(* ------------------------ _cache_get, _cache_set ----------------------- *)

\* entry = c.get(key); if not entry: return None; return entry.get('value')
CacheGetValue(d, k) ==
    IF k \notin DOMAIN d THEN None
    ELSE IF Falsy(d[k]) THEN None
    ELSE d[k].value

\* (mutant of Insert: c.setdefault(key, ...), an entry already there is kept)
InsertKeepsOld(d, k, e) == [j \in DOMAIN d \cup {k} |-> IF j \in DOMAIN d THEN d[j] ELSE e]

\* (mutant of Insert: c = {key: ...}, the loaded entries are dropped)
InsertAlone(d, k, e) == [j \in {k} |-> e]

\* c[key] = {'ts': ..., 'ttl': ttl, 'value': value}
Insert(d, k, e) == [j \in DOMAIN d \cup {k} |-> IF j = k THEN e ELSE d[j]]

\* (mutant of IsHit: `if cached:`, an empty list is fetched again)
IsHitTruthy(cached) == cached # None /\ cached # PyList(<<>>)

\* `if cached is not None` of search_multi and get_details
IsHit(cached) == cached # None

\* _cache_get returns to its caller: the application, or search_multi, which
\* returns the cached value unless it is None
CacheGetReturn(p) ==
    /\ p \in procs
    /\ pc[p] = "loaded"
    /\ sub[p] = "get"
    /\ LET cached == CacheGetValue(c[p], key[p])
       IN  IF top[p].name = "_cache_get" \/ IsHit(cached)
           THEN /\ result' = [result EXCEPT ![p] = Ret(cached)]
                /\ pc' = [pc EXCEPT ![p] = "done"]
           ELSE /\ result' = result
                /\ pc' = [pc EXCEPT ![p] = "req"]
    /\ found' = [found EXCEPT ![p] =
                    IF key[p] \in DOMAIN raw[p]
                    THEN [present |-> TRUE, entry |-> raw[p][key[p]], at |-> lnow[p]]
                    ELSE NotFound]
    /\ c' = [c EXCEPT ![p] = EmptyDict]
    /\ data' = [data EXCEPT ![p] = EmptyDict]
    /\ UNCHANGED <<clock, env, file, frame, sub, val, ttl, ts, raw, lnow, ioerr,
                   resp, path, calls, authVars, reqLocals>>

\* _cache_set stores the entry, stamped time.time(), in c and calls _save_cache(c)
CacheSetInsert(p) ==
    /\ p \in procs
    /\ pc[p] = "loaded"
    /\ sub[p] = "set"
    /\ ts' = [ts EXCEPT ![p] = now]
    /\ c' = [c EXCEPT ![p] = Insert(c[p], key[p], Entry(now, ttl[p], val[p]))]
    /\ pc' = [pc EXCEPT ![p] = "save_open"]
    /\ UNCHANGED <<clock, env, file, frame, sub, val, ttl, data, raw, lnow, ioerr,
                   clientLocals, result, authVars, reqLocals>>

(* ----------------------------- _save_cache ----------------------------- *)

\* what the call that ran _cache_set returns: None for _cache_set itself, the
\* results for search_multi
SetCallerValue(p) == IF top[p].name = "_cache_set" THEN None ELSE val[p]

\* _save_cache ends, normally or with err raised inside its try block
SaveEnds(p, err) ==
    /\ c' = [c EXCEPT ![p] = EmptyDict]
    /\ data' = [data EXCEPT ![p] = EmptyDict]
    /\ ioerr' = [ioerr EXCEPT ![p] = IF err = "none" THEN @ ELSE err]
    /\ pc' = [pc EXCEPT ![p] = "done"]
    /\ result' = [result EXCEPT ![p] =
                    IF err = "none" \/ SaveCatches(err)
                    THEN Ret(SetCallerValue(p)) ELSE Raise(err)]

\* CACHE_FILE.parent.mkdir(...) and open(CACHE_FILE, 'w'), which truncates the file
SaveOpen(p) ==
    /\ p \in procs
    /\ pc[p] = "save_open"
    /\ \E o \in IOOutcomes :
         IF o = "ok"
         THEN /\ file' = Torn
              /\ pc' = [pc EXCEPT ![p] = "save_dump"]
              /\ UNCHANGED <<ioerr, result, c, data>>
         ELSE /\ file' = file
              /\ SaveEnds(p, o)
    /\ UNCHANGED <<clock, env, frame, sub, val, ttl, ts, raw, lnow, clientLocals, authVars, reqLocals>>

\* json.dump(cache, f)
SaveDump(p) ==
    /\ p \in procs
    /\ pc[p] = "save_dump"
    /\ \E o \in IOOutcomes :
         /\ file' = IF o = "ok" THEN Written(c[p]) ELSE Torn
         /\ SaveEnds(p, IF o = "ok" THEN "none" ELSE o)
    /\ UNCHANGED <<clock, env, frame, sub, val, ttl, ts, raw, lnow, clientLocals, authVars, reqLocals>>

CacheStep(p) ==
    \/ LoadRead(p)
    \/ LoadPrune(p)
    \/ LoadDump(p)
    \/ CacheGetReturn(p)
    \/ CacheSetInsert(p)
    \/ SaveOpen(p)
    \/ SaveDump(p)

(* -------------------- the cache used by one process -------------------- *)

InitCache ==
    /\ InitState
    /\ faults = FALSE
    /\ procs = {1}
    /\ TMDB_API_KEY = TRUE
    /\ kinds = {"multi"}
    /\ tickSteps = {1}
    /\ args = CacheArgs
    /\ OMDB_API_KEY = FALSE
    /\ PERPLEXITY_API_KEY = None

NextCache ==
    \/ Tick
    \/ \E p \in Procs : CallCacheGet(p) \/ CallCacheSet(p) \/ CacheStep(p)

SpecCache == InitCache /\ [][NextCache]_vars

(* ------------------------- the metadata client ------------------------ *)

Kinds == {"movie", "tv", "multi", "both", "person"}
KindSets == {{"multi", "person"}, {"both", "movie"}}
MediaTypes == {"all", "tv", "bogus"}
TimeWindows == {"week", "month"}

\* search_multi(query, kind, page): key = f"search:{kind}:{query}:{page}" and
\* cached = _cache_get(key)
CallSearch(p) ==
    /\ Ready(p)
    /\ \E q \in Queries, kind \in kinds, page \in Pages :
         Enter(p, [NoCall EXCEPT !.name = "search_multi", !.kind = kind, !.query = q,
                                 !.page = page],
               "get", SearchKey(kind, q, page), None, CACHE_TTL, NoPrev, "load_read", Pending)
    /\ UNCHANGED <<clock, env, file, authVars>>

\* (mutant of TrendingArgsError: the time window is not checked)
TrendingArgsErrorTypeOnly(mt, tw) ==
    IF mt \notin {"all", "movie", "tv"} THEN "ValueError" ELSE "none"

\* the two checks at the head of get_trending
TrendingArgsError(mt, tw) ==
    IF mt \notin {"all", "movie", "tv"} THEN "ValueError"
    ELSE IF tw \notin {"day", "week"} THEN "ValueError"
    ELSE "none"

\* get_trending(media_type, time_window, page) up to its call of _req
CallTrending(p) ==
    /\ Ready(p)
    /\ \E mt \in MediaTypes, tw \in TimeWindows :
         LET call == [NoCall EXCEPT !.name = "get_trending", !.media_type = mt,
                                    !.time_window = tw]
             err == TrendingArgsError(mt, tw)
         IN  IF err # "none"
             THEN Enter(p, call, "none", <<>>, None, CACHE_TTL, NoPrev, "done", Raise(err))
             ELSE Enter(p, call, "none", <<>>, None, CACHE_TTL, NoPrev, "req", Pending)
    /\ UNCHANGED <<clock, env, file, authVars>>

\* the path search_multi asks _req for
SearchPath(kind) ==
    IF kind \in {"multi", "both"} THEN <<"search", "multi">>
    ELSE IF kind = "movie" THEN <<"search", "movie">>
    ELSE <<"search", "tv">>

\* f"/trending/{media_type}/{time_window}"
TrendingPath(mt, tw) == <<"trending", mt, tw>>

\* one summary of search_multi (title, release_date, overview, poster and
\* popularity are copied from the item like id)
Summary(typ, it) == [type |-> typ, id |-> it.id, tmdb_raw |-> it]

IsMovieOrTv(it) == it.media_type \in {"movie", "tv"}

\* (mutant of MultiResults: the items of other types are not skipped)
MultiResultsUnfiltered(items) ==
    [i \in 1..Len(items) |-> Summary(items[i].media_type, items[i])]

\* the loop of search_multi over data.get('results', []) for kind multi / both
MultiResults(items) ==
    LET kept == SelectSeq(items, IsMovieOrTv)
    IN  [i \in 1..Len(kept) |-> Summary(kept[i].media_type, kept[i])]

\* the loop of search_multi for the other kinds
KindResults(kind, items) == [i \in 1..Len(items) |-> Summary(kind, items[i])]

SearchResults(kind, items) ==
    IF kind \in {"multi", "both"} THEN MultiResults(items) ELSE KindResults(kind, items)

\* r.get("media_type") or media_type if media_type != "all" else r.get("media_type")
TrendingType(r, mt) ==
    IF mt # "all" THEN (IF r.media_type # "" THEN r.media_type ELSE mt) ELSE r.media_type

\* the loop of get_trending (title, release_date, poster and the scores are
\* copied from the item like id)
TrendingItems(mt, items) ==
    [i \in 1..Len(items) |-> [id |-> items[i].id, media_type |-> TrendingType(items[i], mt),
                              raw |-> items[i]]]

\* what _session.get and r.json() can come to: a 200 response with a result page,
\* or one of the failures _req turns into TMDbError
ReqOutcomes ==
    {[status |-> "ok", results |-> s] : s \in ProviderResults}
        \cup {[status |-> e, results |-> <<>>] :
                 e \in {"RequestException", "status != 200", "undecodable body"}}

\* (mutant of ReqFails: _req hands back the body whatever happened)
ReqFailsNever(r) == FALSE

\* _req raises TMDbError unless a response with status 200 and a JSON body came
ReqFails(r) == r.status # "ok"

\* _req(path, params), and what the caller does with its data: search_multi builds
\* the results and calls _cache_set(key, results); get_trending returns its items
Req(p) ==
    /\ p \in procs
    /\ pc[p] = "req"
    /\ top[p].name \in {"search_multi", "get_trending"}
    /\ path' = [path EXCEPT ![p] =
                  IF top[p].name = "search_multi" THEN SearchPath(top[p].kind)
                  ELSE TrendingPath(top[p].media_type, top[p].time_window)]
    /\ IF ~TMDB_API_KEY
       THEN /\ result' = [result EXCEPT ![p] = Raise("TMDbError")]
            /\ pc' = [pc EXCEPT ![p] = "done"]
            /\ UNCHANGED <<calls, resp, sub, val, ioerr, upstream>>
       ELSE /\ calls' = [calls EXCEPT ![p] = @ + 1]
            /\ \E r \in ReqOutcomes :
                 /\ upstream' = [upstream EXCEPT ![p] = r.status]
                 /\ IF ReqFails(r)
                    THEN /\ result' = [result EXCEPT ![p] = Raise("TMDbError")]
                         /\ pc' = [pc EXCEPT ![p] = "done"]
                         /\ UNCHANGED <<resp, sub, val, ioerr>>
                    ELSE IF top[p].name = "search_multi"
                    THEN /\ resp' = [resp EXCEPT ![p] = r.results]
                         /\ val' = [val EXCEPT ![p] =
                                      PyList(SearchResults(top[p].kind, r.results))]
                         /\ sub' = [sub EXCEPT ![p] = "set"]
                         /\ ioerr' = [ioerr EXCEPT ![p] = "none"]
                         /\ pc' = [pc EXCEPT ![p] = "load_read"]
                         /\ result' = result
                    ELSE /\ resp' = [resp EXCEPT ![p] = r.results]
                         /\ result' = [result EXCEPT ![p] =
                                         Ret(PyList(TrendingItems(top[p].media_type, r.results)))]
                         /\ pc' = [pc EXCEPT ![p] = "done"]
                         /\ UNCHANGED <<sub, val, ioerr>>
    /\ UNCHANGED <<clock, env, file, frame, ttl, ts, data, raw, lnow, c, found, authVars,
                   omdb, attempts, error>>

InitClient ==
    /\ InitState
    /\ faults = FALSE
    /\ procs = {1}
    /\ TMDB_API_KEY \in BOOLEAN
    /\ kinds \in KindSets
    /\ tickSteps = {1, CACHE_TTL}
    /\ args = CacheArgs
    /\ OMDB_API_KEY = FALSE
    /\ PERPLEXITY_API_KEY = None

NextClient ==
    \/ Tick
    \/ \E p \in Procs : CallSearch(p) \/ CallTrending(p) \/ CacheStep(p) \/ Req(p)

SpecClient == InitClient /\ [][NextClient]_vars

(* ----------------------------- get_details ----------------------------- *)

DetailKinds == {"movie", "tv", "person"}

Ids == {603}

\* f'movie:{tmdb_id}' and f'tv:{tmdb_id}'
DetailKey(kind, id) == <<kind, id>>

PyString(s) == [tag |-> "str", items |-> s]

\* a key that a dict does not have
Absent == [tag |-> "absent", items |-> <<>>]

\* `if x`: neither None nor ""
Truthy(x) == x # None /\ x # PyString(<<>>)

\* the data of a 200 response to /movie/{id} or /tv/{id}: external_ids.imdb_id is
\* missing, empty or an id
ProviderDetails ==
    {[id |-> 603, imdb_id |-> i] : i \in {None, PyString(<<>>), PyString(<<"tt0133093">>)}}

\* the out dict of get_movie_details / get_tv_details before the enrichment
\* (title, overview, poster, genres, runtime, rating and credits are copied
\* from the data like id)
Detail(kind, d) ==
    [tag |-> "dict", items |-> <<>>, type |-> kind, id |-> d.id, imdb_id |-> d.imdb_id,
     awards |-> Absent]

\* what requests.get(url, ..., timeout=8) and r.json() can come to
OmdbAnswers ==
    { [kind |-> "exception", awards |-> Absent],
      [kind |-> "status != 200", awards |-> Absent],
      [kind |-> "undecodable body", awards |-> Absent],
      [kind |-> "not a dict", awards |-> Absent],
      [kind |-> "ok", awards |-> Absent],
      [kind |-> "ok", awards |-> PyString(<<"Won 4 Oscars">>)] }

\* (mutant of get_awards_from_omdb: the request is made outside the try block)
get_awards_unguarded(imdb_id, a) ==
    IF ~Truthy(imdb_id) \/ ~OMDB_API_KEY THEN Ret(None)
    ELSE IF a.kind = "exception" THEN Raise("RequestException")
    ELSE IF a.kind # "ok" \/ a.awards = Absent THEN Ret(None)
    ELSE Ret(a.awards)

\* _get_awards_from_omdb(imdb_id): None when a check, the request, the status or
\* the decoding fails, else j.get('Awards')
get_awards_from_omdb(imdb_id, a) ==
    IF ~Truthy(imdb_id) \/ ~OMDB_API_KEY THEN Ret(None)
    ELSE IF a.kind # "ok" THEN Ret(None)
    ELSE IF a.awards = Absent THEN Ret(None)
    ELSE Ret(a.awards)

\* get_details(kind, tmdb_id): get_movie_details or get_tv_details up to
\* cached = _cache_get(key), or TMDbError('kind must be movie or tv')
CallDetails(p) ==
    /\ Ready(p)
    /\ \E kind \in DetailKinds, id \in Ids :
         LET call == [NoCall EXCEPT !.name = "get_details", !.kind = kind, !.tmdb_id = id]
         IN  IF kind \notin {"movie", "tv"}
             THEN Enter(p, call, "none", <<>>, None, CACHE_TTL, NoPrev, "done",
                        Raise("TMDbError"))
             ELSE Enter(p, call, "get", DetailKey(kind, id), None, CACHE_TTL, NoPrev,
                        "load_read", Pending)
    /\ UNCHANGED <<clock, env, file, authVars>>

DetailOutcomes ==
    {[status |-> "ok", data |-> d] : d \in ProviderDetails}
        \cup {[status |-> e, data |-> [id |-> 0, imdb_id |-> None]] :
                 e \in {"RequestException", "status != 200", "undecodable body"}}

\* data = _req(f'/movie/{tmdb_id}', ...) and the building of out
ReqDetails(p) ==
    /\ p \in procs
    /\ pc[p] = "req"
    /\ top[p].name = "get_details"
    /\ path' = [path EXCEPT ![p] = <<top[p].kind, top[p].tmdb_id>>]
    /\ IF ~TMDB_API_KEY
       THEN /\ result' = [result EXCEPT ![p] = Raise("TMDbError")]
            /\ pc' = [pc EXCEPT ![p] = "done"]
            /\ UNCHANGED <<calls, resp, sub, val, ioerr, upstream>>
       ELSE /\ calls' = [calls EXCEPT ![p] = @ + 1]
            /\ \E r \in DetailOutcomes :
                 /\ upstream' = [upstream EXCEPT ![p] = r.status]
                 /\ IF ReqFails(r)
                    THEN /\ result' = [result EXCEPT ![p] = Raise("TMDbError")]
                         /\ pc' = [pc EXCEPT ![p] = "done"]
                         /\ UNCHANGED <<resp, sub, val, ioerr>>
                    ELSE /\ resp' = [resp EXCEPT ![p] = <<r.data>>]
                         /\ val' = [val EXCEPT ![p] = Detail(top[p].kind, r.data)]
                         /\ sub' = [sub EXCEPT ![p] = "set"]
                         /\ ioerr' = [ioerr EXCEPT ![p] = "none"]
                         /\ pc' = [pc EXCEPT ![p] =
                                     IF Truthy(r.data.imdb_id) /\ OMDB_API_KEY
                                     THEN "awards" ELSE "load_read"]
                         /\ result' = result
    /\ UNCHANGED <<clock, env, file, frame, ttl, ts, data, raw, lnow, c, found, authVars,
                   omdb, attempts, error>>

\* aw = _get_awards_from_omdb(out['imdb_id']); out['awards'] = aw; then
\* _cache_set(key, out)
Awards(p) ==
    /\ p \in procs
    /\ pc[p] = "awards"
    /\ \E a \in OmdbAnswers :
         LET aw == get_awards_from_omdb(val[p].imdb_id, a)
         IN  /\ omdb' = [omdb EXCEPT ![p] =
                           IF a.kind = "ok" /\ a.awards = Absent THEN "no awards" ELSE a.kind]
             /\ IF aw.kind = "raise"
                THEN /\ result' = [result EXCEPT ![p] = aw]
                     /\ pc' = [pc EXCEPT ![p] = "done"]
                     /\ val' = val
                ELSE /\ val' = [val EXCEPT ![p].awards = aw.val]
                     /\ pc' = [pc EXCEPT ![p] = "load_read"]
                     /\ result' = result
    /\ UNCHANGED <<clock, env, file, frame, sub, ttl, ts, data, raw, lnow, c, ioerr,
                   clientLocals, attempts, error, upstream, authVars>>

InitDetails ==
    /\ InitState
    /\ faults = FALSE
    /\ procs = {1}
    /\ TMDB_API_KEY = TRUE
    /\ kinds = {"multi"}
    /\ tickSteps = {CACHE_TTL}
    /\ args = CacheArgs
    /\ OMDB_API_KEY \in BOOLEAN
    /\ PERPLEXITY_API_KEY = None

NextDetails ==
    \/ Tick
    \/ \E p \in Procs : \/ CallSearch(p) \/ CallDetails(p) \/ CacheStep(p)
                        \/ Req(p) \/ ReqDetails(p) \/ Awards(p)

SpecDetails == InitDetails /\ [][NextDetails]_vars

(* -------------------------- _req and its retries ------------------------ *)

\* Retry(total=3, ...)
RetryTotal == 3

\* status_forcelist
StatusForcelist == {500, 502, 503, 504}

ReqPaths == {"/search/multi", "/trending/all/week"}

\* what one request of the transport can come to: no response (connection
\* failure, timeout), or a status with a body that is JSON or not and holds a
\* status_message or none
TransportAnswers ==
    { Answer(TRUE, 200, TRUE, "absent"),
      Answer(TRUE, 200, FALSE, "absent"),
      Answer(TRUE, 404, TRUE, "The resource you requested could not be found."),
      Answer(TRUE, 401, FALSE, "absent"),
      Answer(TRUE, 503, FALSE, "absent"),
      Answer(TRUE, 500, TRUE, "Internal error"),
      Answer(FALSE, 0, FALSE, "absent") }

\* the decoded body of a 200 response
Decoded == [tag |-> "dict", items |-> <<>>]

\* what the adapter retries: a response whose status is in the forcelist, and a
\* request that got no response (GET is idempotent)
Retryable(a) == ~a.arrived \/ a.status \in StatusForcelist

\* (mutant of MayRetry: the retries are not counted)
MayRetryUncounted(a, sent) == Retryable(a)

\* whether the adapter sends the request again after answer a to the sent-th try
MayRetry(a, sent) == Retryable(a) /\ sent - 1 < RetryTotal

\* _req(path) called directly (the call's record holds the path as its query)
CallReq(p) ==
    /\ Ready(p)
    /\ \E q \in ReqPaths :
         Enter(p, [NoCall EXCEPT !.name = "_req", !.query = q], "none", <<>>, None,
               CACHE_TTL, NoPrev, "req_key", Pending)
    /\ UNCHANGED <<clock, env, file, authVars>>

\* _req ends with TMDbError(text), which holds the upstream status and message
\* when a response came
ReqRaises(p, text, a) ==
    /\ result' = [result EXCEPT ![p] = Raise("TMDbError")]
    /\ error' = [error EXCEPT ![p] =
                   IF a.arrived /\ a.status # 200
                   THEN ErrorMessage(text, a.status, a.message)
                   ELSE ErrorMessage(text, 0, "none")]
    /\ pc' = [pc EXCEPT ![p] = "done"]

\* `if not TMDB_API_KEY: raise TMDbError('TMDB_API_KEY not set')`
ReqKey(p) ==
    /\ p \in procs
    /\ pc[p] = "req_key"
    /\ IF ~TMDB_API_KEY
       THEN ReqRaises(p, "TMDB_API_KEY not set", NoAnswer)
       ELSE /\ pc' = [pc EXCEPT ![p] = "req_send"]
            /\ UNCHANGED <<result, error>>
    /\ UNCHANGED <<clock, env, file, frame, cacheLocals, clientLocals, omdb, attempts,
                   upstream, authVars>>

\* one try of _session.get(url, params=p, timeout=10); after the last one, the
\* rest of _req
ReqSend(p) ==
    /\ p \in procs
    /\ pc[p] = "req_send"
    /\ attempts' = [attempts EXCEPT ![p] = @ + 1]
    /\ \E a \in TransportAnswers :
         /\ resp' = [resp EXCEPT ![p] = Append(@, a)]
         /\ IF MayRetry(a, attempts[p] + 1)
            THEN UNCHANGED <<pc, result, error>>
            ELSE IF ~a.arrived THEN ReqRaises(p, "Network error", a)
            ELSE IF a.status # 200 THEN ReqRaises(p, "TMDB", a)
            ELSE IF ~a.json THEN ReqRaises(p, "Failed to decode JSON", a)
            ELSE /\ result' = [result EXCEPT ![p] = Ret(Decoded)]
                 /\ pc' = [pc EXCEPT ![p] = "done"]
                 /\ error' = error
    /\ UNCHANGED <<clock, env, file, frame, cacheLocals, found, path, calls, omdb,
                   upstream, authVars>>

InitReq ==
    /\ InitState
    /\ faults = FALSE
    /\ procs = {1}
    /\ TMDB_API_KEY \in BOOLEAN
    /\ kinds = {"multi"}
    /\ tickSteps = {1}
    /\ args = CacheArgs
    /\ OMDB_API_KEY = FALSE
    /\ PERPLEXITY_API_KEY = None

NextReq == \E p \in Procs : CallReq(p) \/ ReqKey(p) \/ ReqSend(p)

SpecReq == InitReq /\ [][NextReq]_vars

(* ------------------- the cache with failing file I/O ------------------- *)

\* documents that are in the file after something else than this program wrote
\* it: unparseable text, an entry that is not a dict, an entry that is null
CorruptDocs ==
    { Torn }
    \cup {[state |-> "ok",
           data |-> [k \in {j} |-> [shape |-> sh, ts |-> 0, ttl |-> 0, value |-> None]]] :
             j \in CacheKeys, sh \in {"bad", "falsy"}}

\* the environment damages or replaces the cache file
CorruptFile ==
    /\ faults
    /\ \E doc \in CorruptDocs : file' = doc
    /\ UNCHANGED <<clock, env, pc, frame, cacheLocals, clientLocals, result, authVars, reqLocals>>

InitFault ==
    /\ InitState
    /\ faults = TRUE
    /\ procs = {1}
    /\ TMDB_API_KEY = TRUE
    /\ kinds = {"multi"}
    /\ tickSteps = {1}
    /\ args = CacheArgs
    /\ OMDB_API_KEY = FALSE
    /\ PERPLEXITY_API_KEY = None

\* the clock stands still: an entry is expired here by its ttl (-1), not by time
NextFault ==
    \/ CorruptFile
    \/ \E p \in Procs : \/ CallCacheGet(p) \/ CallCacheSet(p) \/ CallSearch(p)
                        \/ CacheStep(p) \/ Req(p)

SpecFault == InitFault /\ [][NextFault]_vars

(* ------------- one process, failing file I/O, an intact file ----------- *)

\* as SpecFault, but nothing other than the process touches the file
NextFrame ==
    \/ Tick
    \/ \E p \in Procs : CallCacheGet(p) \/ CallCacheSet(p) \/ CacheStep(p)

InitFrame ==
    /\ InitState
    /\ faults = TRUE
    /\ procs = {1}
    /\ TMDB_API_KEY = TRUE
    /\ kinds = {"multi"}
    /\ tickSteps = {CACHE_TTL}
    /\ args = RaceArgs
    /\ OMDB_API_KEY = FALSE
    /\ PERPLEXITY_API_KEY = None

SpecFrame == InitFrame /\ [][NextFrame]_vars

(* --------------------- two processes, one cache file ------------------- *)

\* two server processes (Streamlit sessions, workers) share .cache/tmdb_cache.json;
\* each runs its calls step by step, interleaved with the other's
InitRace ==
    /\ InitState
    /\ faults = FALSE
    /\ procs = Procs
    /\ TMDB_API_KEY = TRUE
    /\ kinds = {"multi"}
    /\ tickSteps = {1}
    /\ args = RaceArgs
    /\ OMDB_API_KEY = FALSE
    /\ PERPLEXITY_API_KEY = None

NextRace ==
    \E p \in Procs : CallCacheGet(p) \/ CallCacheSet(p) \/ CacheStep(p)

SpecRace == InitRace /\ [][NextRace]_vars

(* --------------------- the auth / watchlist client --------------------- *)

Emails == {"ann@example.org", "bob@example.org"}

PyStr(s) == [tag |-> "str", items |-> s]

\* the payload the identity provider sends with a 200
Payload(email) ==
    [tag |-> "dict", items |-> <<>>, email |-> email,
     idToken |-> PyStr(<<"idToken", email>>), localId |-> PyStr(<<"localId", email>>)]

\* answers of the identity provider: 200 with the payload, or not with a body
\* that is JSON or not, and holds an error.message or none; or no response
IdentityAnswers ==
    { Answer(TRUE, 200, TRUE, "absent"),
      Answer(TRUE, 400, TRUE, "INVALID_PASSWORD"),
      Answer(TRUE, 400, TRUE, "absent"),
      Answer(TRUE, 502, FALSE, "absent"),
      Answer(FALSE, 0, FALSE, "absent") }

\* answers of the database to PATCH, PUT and DELETE
WriteAnswers ==
    { Answer(TRUE, 200, TRUE, "absent"), Answer(TRUE, 204, TRUE, "absent"),
      Answer(TRUE, 401, TRUE, "absent"), Answer(FALSE, 0, FALSE, "absent") }

Watchlist == [tag |-> "dict", items |-> <<"tt0087182">>]

EmptyWatchlist == [tag |-> "dict", items |-> <<>>]

\* answers of the database to GET: the body is null or the stored watchlist
ReadAnswers ==
    { [ans |-> Answer(TRUE, 200, TRUE, "absent"), data |-> None],
      [ans |-> Answer(TRUE, 200, TRUE, "absent"), data |-> Watchlist],
      [ans |-> Answer(TRUE, 200, FALSE, "absent"), data |-> None],
      [ans |-> Answer(TRUE, 401, TRUE, "absent"), data |-> None],
      [ans |-> Answer(FALSE, 0, FALSE, "absent"), data |-> None] }

is_authenticated(u) == u # None

id_token(u) == IF u # None THEN u.idToken ELSE None

user_id(u) == IF u # None THEN u.localId ELSE None

\* what a client call leaves: self.user, its outcome, the requests it made
Left(u, r, n) == [user |-> u, res |-> r, http |-> n]

\* sign_in and the first half of sign_up: post, resp.json(), status check
Authenticate(u, email, ans, default) ==
    IF ~ans.arrived THEN Left(u, AuthRaise("ConnectionError", "none"), 1)
    ELSE IF ~ans.json THEN Left(u, Seen(AuthRaise("JSONDecodeError", "none"), ans), 1)
    ELSE IF ans.status # 200
         THEN Left(u, Seen(AuthRaise("FirebaseAuthError",
                                     IF ans.message = "absent" THEN default ELSE ans.message),
                           ans), 1)
         ELSE Left(Payload(email), Seen(AuthRet(Payload(email)), ans), 1)

sign_in(u, email, ans) == Authenticate(u, email, ans, "Sign in failed")

\* _init_user_profile: PATCH of the profile, its status is not looked at
SeedProfile(l, seed) ==
    IF id_token(l.user) = None \/ user_id(l.user) = None THEN l
    ELSE IF ~seed.arrived
         THEN Left(l.user, Seen(AuthRaise("ConnectionError", "none"), l.res.seen), l.http + 1)
    ELSE Left(l.user, l.res, l.http + 1)

sign_up(u, email, ans, seed) ==
    LET l == Authenticate(u, email, ans, "Sign up failed")
    IN  IF l.res.kind = "raise" THEN l ELSE SeedProfile(l, seed)

sign_out(u) == Left(None, AuthRet(None), 0)

\* `if not self.id_token` of add_to_watchlist and get_watchlist
NoToken(u) == id_token(u) = None

\* the outcome of _user_path when it raises, NotCalled when it returns the url
UserPathRaises(u) ==
    IF user_id(u) = None THEN AuthRaise("FirebaseAuthError", "No authenticated user")
    ELSE NotCalled

add_to_watchlist(u, ans) ==
    IF NoToken(u) THEN Left(u, AuthRaise("FirebaseAuthError", "User not authenticated"), 0)
    ELSE IF UserPathRaises(u).kind = "raise" THEN Left(u, UserPathRaises(u), 0)
    ELSE IF ~ans.arrived THEN Left(u, AuthRaise("ConnectionError", "none"), 1)
    ELSE IF ans.status \notin {200, 204}
         THEN Left(u, AuthRaise("FirebaseAuthError", "Failed to save to watchlist"), 1)
         ELSE Left(u, AuthRet(None), 1)

get_watchlist(u, rd) ==
    IF NoToken(u) THEN Left(u, AuthRaise("FirebaseAuthError", "User not authenticated"), 0)
    ELSE IF UserPathRaises(u).kind = "raise" THEN Left(u, UserPathRaises(u), 0)
    ELSE IF ~rd.ans.arrived THEN Left(u, AuthRaise("ConnectionError", "none"), 1)
    ELSE IF rd.ans.status # 200
         THEN Left(u, AuthRaise("FirebaseAuthError", "Failed to fetch watchlist"), 1)
    ELSE IF ~rd.ans.json THEN Left(u, AuthRaise("JSONDecodeError", "none"), 1)
    ELSE Left(u, AuthRet(IF rd.data = None THEN EmptyWatchlist ELSE rd.data), 1)

(* ------------------ calls of the auth client and the UI ---------------- *)

\* a call ends: the client's user, the UI session's user, the requests made
Finish(op, u, ss, n, res, inner, shown) ==
    /\ user' = u
    /\ ssUser' = ss
    /\ http' = n
    /\ out' = [op |-> op, prevOp |-> out.op, before |-> user, res |-> res,
               inner |-> inner, shown |-> shown]

\* what the auth client and the UI helpers leave alone
metadata == <<clock, env, file, pc, frame, cacheLocals, clientLocals, reqLocals, result>>

ClientCall(op, l) == Finish(op, l.user, ssUser, l.http, l.res, NotCalled, NoMessage)

ClientSignIn ==
    /\ \E e \in Emails, a \in IdentityAnswers :
           ClientCall("FirebaseAuthClient.sign_in", sign_in(user, e, a))
    /\ UNCHANGED metadata

ClientSignUp ==
    /\ \E e \in Emails, a \in IdentityAnswers, seed \in WriteAnswers :
           ClientCall("FirebaseAuthClient.sign_up", sign_up(user, e, a, seed))
    /\ UNCHANGED metadata

ClientSignOut ==
    /\ ClientCall("FirebaseAuthClient.sign_out", sign_out(user))
    /\ UNCHANGED metadata

ClientAdd ==
    /\ \E a \in WriteAnswers :
           ClientCall("FirebaseAuthClient.add_to_watchlist", add_to_watchlist(user, a))
    /\ UNCHANGED metadata

ClientGet ==
    /\ \E rd \in ReadAnswers :
           ClientCall("FirebaseAuthClient.get_watchlist", get_watchlist(user, rd))
    /\ UNCHANGED metadata

\* AppUI.__init__ on a rerun of the script: a new client, the session's user restored
AppUIInit ==
    /\ Finish("AppUI.__init__", IF ssUser # None /\ ~is_authenticated(None) THEN ssUser ELSE None,
              ssUser, 0, AuthRet(None), NotCalled, NoMessage)
    /\ UNCHANGED metadata

\* AppUI.sign_in and AppUI.sign_up around the client's outcome l
UIAuthenticated(op, l, text, prefix) ==
    IF l.res.kind = "return"
    THEN Finish(op, l.res.val, l.res.val, l.http, AuthRet(None), l.res, Shown("success", text))
    ELSE Finish(op, l.user, ssUser, l.http,
                AuthRet(PyStr(IF l.res.err = "FirebaseAuthError" THEN <<l.res.msg>>
                              ELSE <<prefix, l.res.err>>)),
                l.res, NoMessage)

UISignIn ==
    /\ \E e \in Emails, a \in IdentityAnswers :
           UIAuthenticated("AppUI.sign_in", sign_in(user, e, a), "Signed in!", "Sign in error: ")
    /\ UNCHANGED metadata

UISignUp ==
    /\ \E e \in Emails, a \in IdentityAnswers, seed \in WriteAnswers :
           UIAuthenticated("AppUI.sign_up", sign_up(user, e, a, seed),
                           "Account created and signed in!", "Sign up error: ")
    /\ UNCHANGED metadata

UISignOut ==
    /\ Finish("AppUI.sign_out", None, None, 0, AuthRet(None), sign_out(user).res,
              Shown("success", "Signed out"))
    /\ UNCHANGED metadata

UIAdd ==
    /\ \E a \in WriteAnswers :
           LET l == add_to_watchlist(user, a)
           IN  IF ~is_authenticated(user)
               THEN Finish("AppUI.add_to_watchlist", user, ssUser, 0, AuthRet(None), NotCalled,
                           Shown("error", "Please sign in to manage your watchlist."))
               ELSE Finish("AppUI.add_to_watchlist", l.user, ssUser, l.http, AuthRet(None), l.res,
                           IF l.res.kind = "raise"
                           THEN Shown("error", "Failed to add to watchlist: ")
                           ELSE Shown("success", "Added to watchlist"))
    /\ UNCHANGED metadata

UIGet ==
    /\ \E rd \in ReadAnswers :
           LET l == get_watchlist(user, rd)
           IN  IF l.res.kind = "raise"
               THEN Finish("AppUI.get_watchlist", l.user, ssUser, l.http, AuthRet(EmptyWatchlist),
                           l.res, Shown("warning", "Could not fetch watchlist (not signed in?)"))
               ELSE Finish("AppUI.get_watchlist", l.user, ssUser, l.http, l.res, l.res, NoMessage)
    /\ UNCHANGED metadata

\* (mutant of NoSession: the helper deletes without looking at the session)
NoSessionUnchecked(u) == FALSE

\* `if not self.auth.id_token or not self.auth.user_id` of the UI's delete helpers
NoSession(u) == id_token(u) = None \/ user_id(u) = None

\* remove_from_watchlist and clear_watchlist_db: the session test, then requests.delete
UIDelete(op, a, refused, done, failed) ==
    IF NoSession(user)
    THEN Finish(op, user, ssUser, 0, AuthRet(None), NotCalled, Shown("error", refused))
    ELSE IF ~a.arrived
         THEN Finish(op, user, ssUser, 1, AuthRaise("ConnectionError", "none"), NotCalled,
                     NoMessage)
         ELSE Finish(op, user, ssUser, 1, AuthRet(None), NotCalled,
                     IF a.status \in {200, 204} THEN Shown("success", done)
                     ELSE Shown("error", failed))

UIRemove ==
    /\ \E a \in WriteAnswers :
           UIDelete("AppUI.remove_from_watchlist", a, "Not authenticated",
                    "Removed from watchlist", "Failed to remove from watchlist")
    /\ UNCHANGED metadata

UIClear ==
    /\ \E a \in WriteAnswers :
           UIDelete("AppUI.clear_watchlist_db", a, "Not signed in",
                    "Cleared watchlist", "Failed to clear watchlist")
    /\ UNCHANGED metadata

InitAuth ==
    /\ InitState
    /\ faults = FALSE
    /\ procs = {1}
    /\ TMDB_API_KEY = TRUE
    /\ kinds = {"multi"}
    /\ tickSteps = {1}
    /\ args = CacheArgs
    /\ OMDB_API_KEY = FALSE
    /\ PERPLEXITY_API_KEY = None

NextAuth ==
    \/ ClientSignIn \/ ClientSignUp \/ ClientSignOut \/ ClientAdd \/ ClientGet
    \/ AppUIInit \/ UISignIn \/ UISignUp \/ UISignOut
    \/ UIAdd \/ UIGet \/ UIRemove \/ UIClear

SpecAuth == InitAuth /\ [][NextAuth]_vars

(* ------------------------- claims on the cache ------------------------- *)

\* process p has finished a _cache_get(key) that directly followed its own
\* _cache_set(key, value, ttl)
GetAfterSet(p) ==
    /\ p \in procs
    /\ pc[p] = "done"
    /\ top[p].name = "_cache_get"
    /\ prev[p].set
    /\ prev[p].key = key[p]

\* C1 as stated: for every key, value and ttl, a _cache_get(key) performed
\* immediately after _cache_set(key, value, ttl) (no time has passed between the
\* timestamp of the set and the load of the get) returns exactly value.
C1_RoundTripAnyTtl ==
    \A p \in Procs :
        (GetAfterSet(p) /\ lnow[p] = prev[p].ts) => result[p] = Ret(prev[p].val)

\* C1 amended: the _cache_get(key) that directly follows _cache_set(key, value, ttl)
\* returns exactly value (a JSON value) when the ttl is not smaller than the time
\* elapsed between the set's timestamp and the get's load (so for every ttl >= 0
\* when no time has passed, and never for a negative ttl); with a smaller ttl it
\* reports absent.
C1_RoundTrip ==
    \A p \in Procs :
        GetAfterSet(p) =>
            /\ lnow[p] - prev[p].ts <= prev[p].ttl => result[p] = Ret(prev[p].val)
            /\ lnow[p] - prev[p].ts > prev[p].ttl => result[p] = Ret(None)

\* C1 witness: a get right after a set returned the value just set, while the file
\* held another key with another value.
C1_Witness ==
    \E p \in Procs :
        /\ GetAfterSet(p)
        /\ result[p] = Ret(prev[p].val)
        /\ prev[p].val # None
        /\ file.state = "ok"
        /\ \E k \in DOMAIN file.data : k # key[p] /\ file.data[k].value # prev[p].val

\* the entries json.load returned to the last _load_cache of p that were expired
\* at its time.time()
Gone(p) == {k \in DOMAIN raw[p] : raw[p][k].ts + raw[p][k].ttl < lnow[p]}

\* C2: every entry with ts + ttl < now at a load is absent from what the load
\* returns and from the file, which is rewritten without it; no entry expired at
\* the time of a load is in its result or in the file (so no later load returns
\* it); a load that finds nothing expired leaves the file as it read it; and
\* _cache_get reports absent for the key of such an entry.
C2_ExpiryPruning ==
    \A p \in Procs :
        /\ pc[p] = "loaded" =>
              /\ \A k \in Gone(p) : k \notin DOMAIN c[p] /\ k \notin DOMAIN file.data
              /\ Gone(p) # {} => file = [state |-> "ok", data |-> c[p]]
              /\ Gone(p) = {} => (c[p] = raw[p] /\ file.data = raw[p])
              /\ \A k \in DOMAIN c[p] : c[p][k].ts + c[p][k].ttl >= lnow[p]
              /\ \A k \in DOMAIN file.data :
                     file.data[k].ts + file.data[k].ttl >= lnow[p]
        /\ (pc[p] = "done" /\ top[p].name = "_cache_get" /\ key[p] \in Gone(p))
              => result[p] = Ret(None)

\* C2 witness: a load has returned after dropping an expired entry and keeping
\* another one.
C2_Witness ==
    \E p \in Procs :
        /\ pc[p] = "loaded"
        /\ Gone(p) # {}
        /\ DOMAIN c[p] # {}
        /\ file.state = "ok"

\* C3 as stated: _cache_get(key) returns the stored value iff the file holds an
\* entry for key and now < ts + ttl; at now = ts + ttl it reports absent.
C3_ValidStrictlyBefore ==
    \A p \in Procs :
        (p \in procs /\ pc[p] = "done" /\ top[p].name = "_cache_get") =>
            result[p] = Ret(IF /\ key[p] \in DOMAIN raw[p]
                               /\ lnow[p] < raw[p][key[p]].ts + raw[p][key[p]].ttl
                            THEN raw[p][key[p]].value ELSE None)

\* C3 amended: _cache_get(key) returns the stored value iff the file holds an
\* entry for key and now <= ts + ttl; at now = ts + ttl exactly the entry is still
\* valid and its value is returned; it is absent from now = ts + ttl + 1 on.
C3_ValidUntilIncluded ==
    \A p \in Procs :
        (p \in procs /\ pc[p] = "done" /\ top[p].name = "_cache_get") =>
            result[p] = Ret(IF /\ key[p] \in DOMAIN raw[p]
                               /\ lnow[p] <= raw[p][key[p]].ts + raw[p][key[p]].ttl
                            THEN raw[p][key[p]].value ELSE None)

\* C3 witness: a _cache_get at now = ts + ttl exactly has returned the stored value.
C3_Witness ==
    \E p \in Procs :
        /\ pc[p] = "done"
        /\ top[p].name = "_cache_get"
        /\ key[p] \in DOMAIN raw[p]
        /\ lnow[p] = raw[p][key[p]].ts + raw[p][key[p]].ttl
        /\ result[p] = Ret(raw[p][key[p]].value)
        /\ result[p].val # None

(* --------------------- claims on the metadata client ------------------- *)

\* process p has finished, with a result list, a search_multi of one of `ks`
Searched(p, ks) ==
    /\ p \in procs
    /\ pc[p] = "done"
    /\ top[p].name = "search_multi"
    /\ top[p].kind \in ks
    /\ result[p].kind = "return"

\* the movie and tv items of a provider page, in the page's order, each as a
\* summary of its own type
RECURSIVE MovieAndTvOf(_)
MovieAndTvOf(items) ==
    IF items = <<>> THEN <<>>
    ELSE LET it == Head(items)
         IN  (IF it.media_type = "movie" \/ it.media_type = "tv"
              THEN <<[type |-> it.media_type, id |-> it.id, tmdb_raw |-> it]>>
              ELSE <<>>) \o MovieAndTvOf(Tail(items))

\* C6: search_multi with kind 'multi' returns exactly the provider's items whose
\* media_type is movie or tv, in the provider's order, each with type movie or tv;
\* an empty provider page gives an empty list, not an error. A freshly fetched
\* result is the filtered page of this call's provider answer; a result served
\* from the cache is the value stored for the key, which is the filtered page of
\* a provider answer.
C6_MultiOnlyMovieTv ==
    \A p \in Procs :
        Searched(p, {"multi"}) =>
            /\ result[p].val.tag = "list"
            /\ \A i \in 1..Len(result[p].val.items) :
                   /\ result[p].val.items[i].type \in {"movie", "tv"}
                   /\ result[p].val.items[i].type = result[p].val.items[i].tmdb_raw.media_type
            /\ calls[p] = 1 => result[p].val.items = MovieAndTvOf(resp[p])
            /\ calls[p] = 0 =>
                   /\ found[p].present
                   /\ result[p].val = found[p].entry.value
                   /\ \E page \in ProviderResults :
                          result[p].val.items = MovieAndTvOf(page)

\* C6 witness: a multi search whose provider page held a person between a movie
\* and a tv item has returned the two, in order.
C6_Witness ==
    \E p \in Procs :
        /\ Searched(p, {"multi"})
        /\ calls[p] = 1
        /\ Len(resp[p]) = 3
        /\ Len(result[p].val.items) = 2
        /\ result[p].val.items[1].type = "movie"
        /\ result[p].val.items[2].type = "tv"

\* C7: get_trending with media_type outside {all, movie, tv} or time_window
\* outside {day, week} fails with ValueError, and it has then sent no request,
\* asked _req for no path and entered no cache function; with both in range it
\* goes on to _req with the trending path (and sends the request when the API key
\* is set), never failing with ValueError.
C7_TrendingFailsFast ==
    \A p \in Procs :
        top[p].name = "get_trending" =>
            LET mt == top[p].media_type
                tw == top[p].time_window
                inRange == (mt = "all" \/ mt = "movie" \/ mt = "tv") /\ (tw = "day" \/ tw = "week")
            IN  /\ sub[p] = "none" /\ c[p] = EmptyDict /\ raw[p] = EmptyDict
                /\ pc[p] \in {"req", "done"}
                /\ ~inRange =>
                       /\ pc[p] = "done"
                       /\ result[p] = Raise("ValueError")
                       /\ calls[p] = 0
                       /\ path[p] = NoPath
                /\ (inRange /\ pc[p] = "done") =>
                       /\ result[p].err # "ValueError"
                       /\ path[p] = <<"trending", mt, tw>>
                       /\ TMDB_API_KEY => calls[p] = 1

\* C7 witness: a call with a time window out of range (and a media type in
\* range) has failed while the cache file held an entry.
C7_Witness ==
    \E p \in Procs :
        /\ top[p].name = "get_trending"
        /\ top[p].media_type = "all"
        /\ top[p].time_window = "month"
        /\ pc[p] = "done"
        /\ result[p] = Raise("ValueError")
        /\ file.state = "ok"

\* C8: search_multi with a kind outside {movie, tv, multi} fails with an
\* invalid-argument error, having sent no request and written no cache entry.
C8_SearchRejectsUnknownKind ==
    \A p \in Procs :
        (/\ p \in procs
         /\ pc[p] = "done"
         /\ top[p].name = "search_multi"
         /\ top[p].kind \notin {"movie", "tv", "multi"}) =>
            /\ result[p].kind = "raise"
            /\ result[p].err = "ValueError"
            /\ calls[p] = 0
            /\ key[p] \notin DOMAIN file.data

\* the search of p found a stale entry for its key when it read the cache
FoundStale(p) ==
    /\ p \in procs
    /\ top[p].name = "search_multi"
    /\ found[p].present
    /\ found[p].entry.ts + found[p].entry.ttl < found[p].at

\* C10: a search_multi that finds in the file an entry for its key with ts + ttl
\* in the past never returns the stale value: it goes to the provider, and when
\* it returns, its result is the one built from the provider's answer and the
\* file holds for the key an entry with that result, ttl CACHE_TTL and the
\* timestamp taken during the call, later than the stale entry's expiry.
C10_StaleEntryRefreshed ==
    \A p \in Procs :
        FoundStale(p) =>
            /\ pc[p] # "req" => path[p] = SearchPath(top[p].kind)
            /\ (pc[p] # "req" /\ TMDB_API_KEY) => calls[p] = 1
            /\ (pc[p] = "done" /\ result[p].kind = "return") =>
                   /\ calls[p] = 1
                   /\ result[p].val = PyList(SearchResults(top[p].kind, resp[p]))
                   /\ file.state = "ok"
                   /\ key[p] \in DOMAIN file.data
                   /\ file.data[key[p]].value = result[p].val
                   /\ file.data[key[p]].ttl = CACHE_TTL
                   /\ file.data[key[p]].ts = ts[p]
                   /\ found[p].at <= ts[p] /\ ts[p] <= now
                   /\ ts[p] > found[p].entry.ts + found[p].entry.ttl

\* C10 witness: the search has replaced a stale entry by one with another value.
C10_Witness ==
    \E p \in Procs :
        /\ FoundStale(p)
        /\ pc[p] = "done"
        /\ result[p].kind = "return"
        /\ result[p].val # found[p].entry.value
        /\ file.data[key[p]].ts = now

(* ------------------ claims on the cache under failures ----------------- *)

\* C4: whatever fails while loading (missing, unreadable, unparseable or
\* wrongly shaped file, failing prune rewrite) or saving, _cache_get and
\* _cache_set return: a failed load gives the empty store, so the _cache_get
\* reports absent; _cache_set returns None whether or not the save worked; and
\* search_multi ends with the results built from the provider's answer (or with
\* the provider's TMDbError), never with an error of the cache.
C4_CacheFailOpen ==
    \A p \in Procs :
        /\ (pc[p] = "done" /\ top[p].name \in {"_cache_get", "_cache_set"})
               => result[p].kind = "return"
        /\ (pc[p] = "loaded" /\ ioerr[p] # "none") => c[p] = EmptyDict
        /\ (pc[p] = "done" /\ top[p].name = "_cache_get" /\ ioerr[p] # "none")
               => result[p] = Ret(None)
        /\ (pc[p] = "done" /\ top[p].name = "_cache_set") => result[p] = Ret(None)
        /\ (pc[p] = "done" /\ top[p].name = "search_multi") =>
               /\ result[p].kind = "raise" => (result[p].err = "TMDbError" /\ sub[p] = "get")
               /\ sub[p] = "set" =>
                      result[p] = Ret([tag |-> "list", items |-> MovieAndTvOf(resp[p])])

\* C4 witness: a search_multi whose save failed has returned the provider's
\* movie and tv items.
C4_Witness ==
    \E p \in Procs :
        /\ pc[p] = "done"
        /\ top[p].name = "search_multi"
        /\ sub[p] = "set"
        /\ ioerr[p] = "OSError"
        /\ file.state = "torn"
        /\ result[p].kind = "return"
        /\ Len(result[p].val.items) = 2

(* ------------------ claims on the cache under concurrency -------------- *)

\* C5: with two processes working on the one cache file at the same time, no
\* call of the cache ever ends with an error (a reader that meets the file
\* while the other one is rewriting it takes the store as empty), and every
\* _cache_set returns None; what may be lost is an entry, see the witness.
C5_RaceNeverErrors ==
    \A p \in Procs :
        /\ result[p].kind # "raise"
        /\ pc[p] = "done" => result[p].kind = "return"
        /\ (pc[p] = "done" /\ top[p].name = "_cache_set") => result[p] = Ret(None)

\* C5 witness: both processes have completed a _cache_set of a long-lived
\* entry, each for another key, without any error, and the file holds the
\* entry of process 2 only: the update of process 1 is lost.
C5_Witness ==
    /\ \A p \in Procs : /\ pc[p] = "done"
                        /\ top[p].name = "_cache_set"
                        /\ ttl[p] = CACHE_TTL
                        /\ result[p] = Ret(None)
    /\ key[1] # key[2]
    /\ file.state = "ok"
    /\ DOMAIN file.data = {key[2]}

(* ---------------------- claims on the watchlist ------------------------ *)

\* C9 (as stated): add, get, remove or clear attempted without a session ends
\* with a raised FirebaseAuthError and has made no HTTP request.
C9_NoSessionTypedError ==
    (/\ out.before = None
     /\ out.op \in {"FirebaseAuthClient.add_to_watchlist", "FirebaseAuthClient.get_watchlist",
                    "AppUI.remove_from_watchlist", "AppUI.clear_watchlist_db"})
        => /\ out.res.kind = "raise"
           /\ out.res.err = "FirebaseAuthError"
           /\ http = 0

\* C9 (amended): without a session no watchlist operation makes an HTTP request
\* and none creates a session; add and get of the auth client raise
\* FirebaseAuthError("User not authenticated"); remove and clear, which are UI
\* helpers, raise nothing: they show the error "Not authenticated" / "Not signed
\* in" and return None; the UI's add and get wrappers show an error or warning.
C9_NoSessionRejected ==
    out.before = None =>
        /\ out.op \in {"FirebaseAuthClient.add_to_watchlist", "FirebaseAuthClient.get_watchlist"}
               => /\ out.res = AuthRaise("FirebaseAuthError", "User not authenticated")
                  /\ http = 0
                  /\ user = None
        /\ out.op = "AppUI.remove_from_watchlist"
               => /\ out.res = AuthRet(None)
                  /\ out.shown = Shown("error", "Not authenticated")
                  /\ http = 0
                  /\ user = None
        /\ out.op = "AppUI.clear_watchlist_db"
               => /\ out.res = AuthRet(None)
                  /\ out.shown = Shown("error", "Not signed in")
                  /\ http = 0
                  /\ user = None
        /\ out.op \in {"AppUI.add_to_watchlist", "AppUI.get_watchlist"}
               => /\ out.res.kind = "return"
                  /\ out.shown.level \in {"error", "warning"}
                  /\ http = 0
                  /\ user = None

\* C9 witness: right after a sign-out, a remove was refused without any request.
C9_Witness ==
    /\ out.op = "AppUI.remove_from_watchlist"
    /\ out.prevOp = "AppUI.sign_out"
    /\ out.before = None
    /\ out.shown.level = "error"
    /\ http = 0

(* ------------------------- claims on get_details ----------------------- *)

\* get_details of process p has fetched the record from the provider and ended
Fetched(p) ==
    /\ pc[p] = "done"
    /\ top[p].name = "get_details"
    /\ calls[p] = 1
    /\ Len(resp[p]) = 1

OmdbFailures == {"exception", "status != 200", "undecodable body"}

C12_Non200IsAuthError ==
    (/\ out.op \in {"FirebaseAuthClient.sign_in", "FirebaseAuthClient.sign_up"}
     /\ out.res.seen.arrived
     /\ out.res.seen.status # 200)
        => /\ out.res.kind = "raise"
           /\ out.res.err = "FirebaseAuthError"
           /\ out.res.seen.message # "absent" => out.res.msg = out.res.seen.message

\* the call that has just ended was a successful sign_in or sign_up, of the
\* client or of the UI
SignedIn(o) ==
    \/ /\ o.op \in {"FirebaseAuthClient.sign_in", "FirebaseAuthClient.sign_up"}
       /\ o.res.kind = "return"
    \/ /\ o.op \in {"AppUI.sign_in", "AppUI.sign_up"}
       /\ o.inner.kind = "return"

\* C13: the client's session (is_authenticated, id_token, user_id) begins only
\* with a successful sign_in / sign_up (a rerun of the UI restores the one the UI
\* session holds), ends only with a sign_out (a rerun drops one the UI session
\* does not hold), and after a sign_out nothing of it remains: none in the
\* client, and after the UI's sign_out none in the UI session state either.
C13_SessionLifecycle ==
    [][ /\ (~is_authenticated(user) /\ is_authenticated(user'))
            => \/ SignedIn(out')
               \/ out'.op = "AppUI.__init__" /\ user' = ssUser
        /\ (is_authenticated(user) /\ ~is_authenticated(user'))
            => \/ out'.op \in {"FirebaseAuthClient.sign_out", "AppUI.sign_out"}
               \/ out'.op = "AppUI.__init__" /\ ssUser = None
        /\ SignedIn(out')
            => (is_authenticated(user') /\ id_token(user') # None /\ user_id(user') # None)
        /\ out'.op \in {"FirebaseAuthClient.sign_out", "AppUI.sign_out"}
            => (user' = None /\ id_token(user') = None /\ user_id(user') = None)
        /\ out'.op = "AppUI.sign_out" => ssUser' = None
      ]_vars

\* C14: once the identity provider has answered the sign-up with 200, sign_up
\* returns the provider's payload and the client holds it as its session,
\* whatever becomes of the seeding request; the UI's sign_up then stores it in
\* the UI session state and reports no error.
C14_SeedingBestEffort ==
    /\ (/\ out.op = "FirebaseAuthClient.sign_up"
        /\ out.res.seen.arrived /\ out.res.seen.json /\ out.res.seen.status = 200)
           => /\ out.res.kind = "return"
              /\ out.res.val = user
              /\ is_authenticated(user)
    /\ (/\ out.op = "AppUI.sign_up"
        /\ out.inner.seen.arrived /\ out.inner.seen.json /\ out.inner.seen.status = 200)
           => /\ out.res = AuthRet(None)
              /\ is_authenticated(user)
              /\ ssUser = user

(* ----------------------------- claims on _req -------------------------- *)

Blank == " "

\* str.strip(): the characters without the leading and trailing blanks
RECURSIVE LStrip(_)
LStrip(s) == IF s # <<>> /\ Head(s) = Blank THEN LStrip(Tail(s)) ELSE s

RECURSIVE RStrip(_)
RStrip(s) == IF s # <<>> /\ s[Len(s)] = Blank THEN RStrip(SubSeq(s, 1, Len(s) - 1)) ELSE s

Strip(s) == RStrip(LStrip(s))

\* what the environment may hold for PERPLEXITY_API_KEY
PerplexityKeys ==
    {None, PyStr(<<>>), PyStr(<<Blank, Blank>>), PyStr(<<"pplx-key">>),
     PyStr(<<Blank, "pplx-key", Blank>>)}

is_enabled(k) == k # None /\ Strip(k.items) # <<>>

Titles == {"The Matrix", "Dune"}

NotConfigured == "Perplexity API key not configured. Add PERPLEXITY_API_KEY in your .env to enable AI insights."

\* the AI provider's answers: whether a response arrived, its status, the shape
\* of its body, the body's "error" member and its "choices" member
PplxAnswer(arrived, status, body, err, choices) ==
    [arrived |-> arrived, status |-> status, body |-> body, error |-> err, choices |-> choices]

PplxAnswers ==
    {PplxAnswer(FALSE, 0, "none", "absent", "absent"),
     PplxAnswer(TRUE, 200, "dict", "absent", "content"),
     PplxAnswer(TRUE, 200, "dict", "absent", "empty"),
     PplxAnswer(TRUE, 200, "dict", "absent", "absent"),
     PplxAnswer(TRUE, 200, "list", "absent", "absent"),
     PplxAnswer(TRUE, 200, "not json", "absent", "absent"),
     PplxAnswer(TRUE, 401, "dict", "dict with message", "absent"),
     PplxAnswer(TRUE, 400, "dict", "dict without message", "absent"),
     PplxAnswer(TRUE, 429, "dict", "string", "absent"),
     PplxAnswer(TRUE, 500, "dict", "absent", "absent"),
     PplxAnswer(TRUE, 500, "list", "absent", "absent"),
     PplxAnswer(TRUE, 502, "not json", "absent", "absent")}

\* the outcome of get_movie_insights and the requests it sent
get_movie_insights(k, title, a) ==
    IF ~is_enabled(k) THEN [res |-> AuthRet(PyStr(<<NotConfigured>>)), http |-> 0]
    ELSE IF ~a.arrived THEN [res |-> AuthRaise("ConnectionError", "none"), http |-> 1]
    ELSE IF a.body = "not json" THEN [res |-> AuthRaise("JSONDecodeError", "none"), http |-> 1]
    ELSE IF a.status # 200
         THEN IF a.body # "dict" \/ a.error = "string"
              THEN [res |-> AuthRaise("AttributeError", "none"), http |-> 1]
              ELSE [res |-> AuthRaise("PerplexityError",
                                      IF a.error = "dict with message" THEN "upstream message"
                                      ELSE "Perplexity API error"),
                    http |-> 1]
    ELSE IF a.body = "dict" /\ a.choices = "content"
         THEN [res |-> AuthRet(PyStr(<<"insight on", title>>)), http |-> 1]
         ELSE [res |-> AuthRaise("PerplexityError", "Unexpected API response"), http |-> 1]

\* the outcome of the call, the provider's answer it got and the title it asked about
Insight(op, title, a, l, res, inner, shown) ==
    /\ out' = [op |-> op, prevOp |-> out.op, before |-> user, res |-> res,
               inner |-> inner, shown |-> shown, title |-> title,
               answer |-> IF l.http = 0 THEN PplxAnswer(FALSE, 0, "none", "absent", "absent")
                          ELSE a]
    /\ http' = l.http

ClientInsights ==
    /\ \E t \in Titles, a \in PplxAnswers :
           LET l == get_movie_insights(PERPLEXITY_API_KEY, t, a)
           IN  Insight("ai_client.get_movie_insights", t, a, l, l.res, NotCalled, NoMessage)
    /\ UNCHANGED <<metadata, user, ssUser>>

\* the "Generate" button of the detail view
UIInsights ==
    /\ \E t \in Titles, a \in PplxAnswers :
           LET l == get_movie_insights(PERPLEXITY_API_KEY, t, a)
           IN  Insight("AppUI.render_detail_view", t, a, l, AuthRet(None), l.res,
                       IF l.res.kind = "return" THEN Shown("info", "insight")
                       ELSE Shown("error", "AI error"))
    /\ UNCHANGED <<metadata, user, ssUser>>

InitAI ==
    /\ InitState
    /\ faults = FALSE
    /\ procs = {1}
    /\ TMDB_API_KEY = TRUE
    /\ kinds = {"multi"}
    /\ tickSteps = {1}
    /\ args = CacheArgs
    /\ OMDB_API_KEY = FALSE
    /\ PERPLEXITY_API_KEY \in PerplexityKeys

NextAI == ClientInsights \/ UIInsights

SpecAI == InitAI /\ [][NextAI]_vars


(* ------------------------ claims on the UI helpers --------------------- *)

\* C16: no failure of a client or remote call leaves a UI helper: the helper
\* returns, a failed inner call has been turned into a message (shown, or
\* returned to the page that shows it) and has left the signed-in state as it
\* was.
C16_UIContainsFailures ==
    out.op \in {"AppUI.sign_in", "AppUI.sign_up", "AppUI.add_to_watchlist",
                "AppUI.get_watchlist", "AppUI.remove_from_watchlist",
                "AppUI.clear_watchlist_db"}
        => /\ out.res.kind = "return"
           /\ out.inner.kind = "raise"
                  => /\ out.shown.level \in {"error", "warning"} \/ out.res.val.tag = "str"
                     /\ user = out.before

\* C17: without a key (missing, empty or blank) get_movie_insights returns the
\* not-configured message and sends nothing; with a key, a call that fails
\* raises PerplexityError and nothing else.
C17_InsightsFailAsPerplexityError ==
    out.op = "ai_client.get_movie_insights"
        => /\ ~is_enabled(PERPLEXITY_API_KEY)
                  => /\ out.res = AuthRet(PyStr(<<NotConfigured>>))
                     /\ http = 0
           /\ out.res.kind = "raise" => out.res.err = "PerplexityError"

(* ----------------------- claims on the client's cache ------------------ *)

\* the entry the call's _cache_get read for its key was not yet expired
Unexpired(f) == f.present /\ ~Expired(f.entry, f.at)

\* C18: a search_multi or get_details that finds an unexpired entry for its
\* key sends no provider request and returns the stored value, an empty list
\* included; a call that does send a request found no entry or an expired one.
C18_HitAvoidsProvider ==
    \A p \in procs :
        pc[p] = "done" /\ top[p].name \in {"search_multi", "get_details"}
                       /\ Unexpired(found[p])
            => /\ calls[p] = 0
               /\ result[p] = Ret(found[p].entry.value)

\* a repeated search answered with the stored empty list, and no request sent
C18_Witness ==
    \E p \in procs :
        /\ pc[p] = "done" /\ top[p].name = "search_multi"
        /\ Unexpired(found[p])
        /\ calls[p] = 0
        /\ result[p] = Ret(PyList(<<>>))

\* the running call asked the provider and the request failed
ProviderFailed(p) == upstream[p] \notin {"none", "ok"}

\* C19: a search_multi or get_details whose provider request fails raises and
\* leaves no entry for its key in the file, so that the next identical call
\* asks the provider again; and every such call that found no unexpired entry
\* has asked the provider, exactly once.
C19_StoredOnlyOnSuccess ==
    \A p \in procs :
        top[p].name \in {"search_multi", "get_details"} /\ key[p] # <<>> =>
            /\ ProviderFailed(p) =>
                   /\ pc[p] = "done" /\ result[p] = Raise("TMDbError")
                   /\ file.state = "ok" => key[p] \notin DOMAIN file.data
            /\ (pc[p] = "done" /\ ~Unexpired(found[p])) => calls[p] = 1

\* a search failed at the provider although the file held an expired entry
\* for its key
C19_Witness ==
    \E p \in procs :
        /\ pc[p] = "done" /\ top[p].name = "search_multi"
        /\ ProviderFailed(p)
        /\ found[p].present
        /\ result[p] = Raise("TMDbError")

(* ------------------------ claims on the frame of set ------------------- *)

\* the entries of a cache file, none if it is missing or unreadable
StoreOf(f) == IF f.state = "ok" THEN JsonLoad(f.data) ELSE EmptyDict

\* the _cache_set of process p has returned
SetDone(p) == pc[p] = "done" /\ top[p].name = "_cache_set"

\* the keys other than k whose entries in d are not expired at time t
OthersUnexpired(d, k, t) == {j \in DOMAIN d \ {k} : ~Expired(d[j], t)}

GetSteps(p) == top[p].name = "_cache_get" /\ pc[p] \notin {"idle", "done"} /\ pc'[p] # pc[p]

\* the unexpired entries of the store d at time t
Live(d, t) == [k \in {j \in DOMAIN d : ~Expired(d[j], t)} |-> d[k]]

\* C21 (as claimed): the step in which a _cache_get completes its rewrite of
\* the file removes no unexpired entry that the file holds.
C21_ReadNeverRemoves ==
    [][\A p \in procs :
           (GetSteps(p) /\ pc[p] = "load_dump") =>
               \A j \in DOMAIN Live(StoreOf(file), now) :
                   /\ j \in DOMAIN StoreOf(file')
                   /\ StoreOf(file')[j] = StoreOf(file)[j]]_vars

\* C21 (amended): a _cache_get that finds nothing expired leaves the file
\* alone; one that prunes truncates the file and then rewrites it with exactly
\* the entries it had loaded that were unexpired then, whatever the file held
\* at that moment.
C21_ReadRewritesWhatItLoaded ==
    [][\A p \in procs :
           GetSteps(p) =>
               \/ file' = file
               \/ /\ pc[p] = "load_prune"
                  /\ DOMAIN Live(data[p], now) # DOMAIN data[p]
                  /\ file' = Torn
               \/ /\ pc[p] = "load_dump"
                  /\ file'.state = "ok"
                  /\ StoreOf(file') = Live(raw[p], lnow[p])]_vars

\* a _cache_get has pruned and rewritten the file, keeping an unexpired entry
\* it had loaded, and the long-lived entry the other process stored meanwhile
\* is gone from the file
C21_Witness ==
    \E p, q \in procs :
        /\ p # q
        /\ top[p].name = "_cache_get" /\ pc[p] = "loaded"
        /\ DOMAIN data[p] # DOMAIN raw[p]
        /\ data[p] # EmptyDict
        /\ StoreOf(file) = data[p]
        /\ pc[q] = "done" /\ top[q].name = "_cache_set" /\ ttl[q] = CACHE_TTL
        /\ key[q] \notin DOMAIN StoreOf(file)

(* ------------------ claims on failed authentication -------------------- *)

\* C22: a sign_in or sign_up of the auth client that raises leaves the stored
\* user, and with it is_authenticated, id_token and user_id, as they were
\* before the call.
C22_FailedAuthKeepsSession ==
    (out.op \in {"FirebaseAuthClient.sign_in", "FirebaseAuthClient.sign_up"}
        /\ out.res.kind = "raise")
        => /\ user = out.before
           /\ is_authenticated(user) = is_authenticated(out.before)
           /\ id_token(user) = id_token(out.before)
           /\ user_id(user) = user_id(out.before)

====
